---- MODULE Spec2Model ----
(***************************************************************************)
(* A model of zwischenraum/pdf-agent-api:                                  *)
(*   - src/src/main.py: PDFState (the page cursor), the navigation tools,  *)
(*     the step callback that prunes images, run_agent and its Response;   *)
(*   - src/eval/evaluate.py: LLMJudge.grade_answer, EvaluationResults and  *)
(*     run_evaluation.                                                     *)
(* The agent loop itself is smolagents' CodeAgent.run, which main.py calls *)
(* with the library's defaults; the model follows the library's loop: one  *)
(* ActionStep per model call, the step's code executed call by call, the   *)
(* step callbacks run in the loop's finally block, a generation error      *)
(* re-raised, and a final answer produced by the library when the step     *)
(* budget is used up.                                                      *)
(*                                                                         *)
(* Python's None for a list of images is the empty sequence here; a page's *)
(* text is a tuple, the empty tuple standing for the falsy "" or None.     *)
(***************************************************************************)
EXTENDS Integers, Sequences, FiniteSets, TLC

\* ------------------------------------------------------------------ bounds
MaxPages == 3   \* documents have 1..MaxPages pages
ArgSlack == 1   \* go_to_page arguments range over -ArgSlack .. MaxPages + ArgSlack
MaxSteps == 3   \* the agent's step budget (CodeAgent's max_steps)
MaxCalls == 1   \* navigation calls in the code of one step

\* The window of steps that keep their images (main.py:124, "current_step - 2").
K == 2

Min(a, b) == IF a < b THEN a ELSE b
Max(a, b) == IF a > b THEN a ELSE b

\* ---------------------------------------------------------------- document
\* A document is the bytes of the upload, seen through what the two decoders
\* make of them: pdf2image (convert_from_bytes) and pypdf (PdfReader) both
\* decode it, with `pages` pages and one text per page, or both raise. The
\* documents drawn have at most one page without extractable text (`blank`,
\* 1-based; 0: every page has text).
PageText(n) == <<"text of page", n>>
NoText == <<>>

Docs ==
  UNION { { [decodable |-> TRUE, pages |-> n,
             text |-> [i \in 1..n |-> IF i = b THEN NoText ELSE PageText(i)]] :
              b \in 0..n } : n \in 1..MaxPages }

\* Bytes neither decoder can read.
CorruptDoc == [decodable |-> FALSE, pages |-> 0, text |-> <<>>]

AllDocs == Docs \cup {CorruptDoc}

\* The image convert_from_bytes renders for 0-based page p at 150 dpi.
Image(p) == [page |-> p]

\* ---------------------------------------------------------------- PDFState
\* PDFState.__init__: current_page = 0; total_pages = the number of pages
\* decoded, or 1 when the decoding raises.
PDFStateInitPageOne(d) ==
  [current_page |-> 1, total_pages |-> IF d.decodable THEN d.pages ELSE 1]
PDFStateInit(d) ==
  [current_page |-> 0, total_pages |-> IF d.decodable THEN d.pages ELSE 1]

\* Python's None where an image is expected.
NoImage == [page |-> 0 - 1]

\* PDFState.get_page_image() for the current page: None when the index is out
\* of range, else the rendering, which raises when the bytes do not decode.
get_page_image(st, d) ==
  LET page_index == st.current_page IN
  IF page_index < 0 \/ page_index >= st.total_pages
    THEN [raised |-> FALSE, image |-> NoImage]
    ELSE IF ~d.decodable
      THEN [raised |-> TRUE, image |-> NoImage]
      ELSE [raised |-> FALSE, image |-> Image(page_index)]

\* PdfReader(BytesIO(pdf_bytes)).pages[i].extract_text(): raises when the
\* bytes do not decode or the index is outside the page list; a negative
\* index counts from the end as Python list indices do.
ReadPageText(d, i) ==
  LET j == IF i < 0 THEN i + d.pages ELSE i IN
  IF ~d.decodable \/ j < 0 \/ j >= d.pages
    THEN [raised |-> TRUE, text |-> NoText]
    ELSE [raised |-> FALSE, text |-> d.text[j + 1]]

\* The f-string the three navigation methods return.
StatusText(cur, page_text) ==
  IF page_text # NoText
    THEN <<"Switched to page ", cur + 1, ". Page text: ", page_text>>
    ELSE <<"Switched to page ", cur + 1, ".">>

\* The common tail of the navigation methods: the cursor is already moved
\* when the text is read, so a raise leaves the new current_page in place.
NavResult(st, d, cur) ==
  LET rd == ReadPageText(d, cur) IN
  [state  |-> [st EXCEPT !.current_page = cur],
   raised |-> rd.raised,
   status |-> IF rd.raised THEN <<>> ELSE StatusText(cur, rd.text)]

NextPageNoClamp(st, d) == NavResult(st, d, st.current_page + 1)
next_page(st, d) ==
  NavResult(st, d, Min(st.current_page + 1, st.total_pages - 1))

PreviousPageNoClamp(st, d) == NavResult(st, d, st.current_page - 1)
previous_page(st, d) ==
  NavResult(st, d, Max(st.current_page - 1, 0))

GoToPageNoLowerClamp(st, d, page_number) ==
  NavResult(st, d, Min(page_number - 1, st.total_pages - 1))
go_to_page(st, d, page_number) ==
  LET page_index == page_number - 1 IN
  NavResult(st, d, Min(Max(page_index, 0), st.total_pages - 1))

GoToArgs == (0 - ArgSlack) .. (MaxPages + ArgSlack)

Answers == {"42"}

\* ------------------------------------------------------------------- state
VARIABLES
  doc,          \* the uploaded bytes, as the decoders see them
  pdf_state,    \* the run's PDFState: current_page, total_pages
  pc,           \* where run_agent is
  run_state,    \* RUNNING, DONE (final answer), ABORTED (step budget), ERROR
  step_number,  \* agent.step_number
  memory,       \* agent.memory.steps: the TaskStep, then the ActionSteps
  cur_step,     \* the ActionStep being built
  calls,        \* navigation calls made so far by the code of this step
  answer,       \* what agent.run returned
  response,     \* the Response run_agent returned
  last,         \* the last navigation call: its argument, the state before, its result
  captured,     \* history: the images the callback attached to each step
  nav_calls,    \* history: navigation calls dispatched in the run
  final_step    \* history: the step whose code called final_answer (0: none)

agentVars ==
  <<doc, pdf_state, pc, run_state, step_number, memory, cur_step, calls,
    answer, response, last, captured, nav_calls, final_step>>

\* src/eval/evaluate.py: the state of one run_evaluation.
VARIABLES
  pdf_exists,       \* Path(pdf_path).exists()
  eval_exists,      \* the evaluation file exists
  eval_file,        \* its lines
  epc,              \* where run_evaluation is
  eval_data,        \* the loaded items
  item_index,       \* i of the loop, 1-based
  predicted_answer, \* of the item being processed
  item_grade,       \* of the item being processed
  results,          \* the EvaluationResults
  saved,            \* the reports written to the output file, in order
  printed,          \* the summaries printed
  returned,         \* how run_evaluation ended: "", "None", "results", or "raised" for an exception
  judge_log,        \* history: per item graded, the judge's reply and what grade_answer returned
  predict_log       \* history: the predictor's reply for each item

evalVars ==
  <<pdf_exists, eval_exists, eval_file, epc, eval_data, item_index,
    predicted_answer, item_grade, results, saved, printed, returned, judge_log,
    predict_log>>

\* The process the harness runs in: its configuration and the script that
\* was started.
VARIABLES
  settings,         \* what the settings object supplies: an API key for the judge's client, an eval_api_url
  entry,            \* the script that was run: "evaluate.py", "run_eval.py", or "" for a bare call
  entry_pc,         \* where the script is: "start", "called" (inside run_evaluation), "exited"
  image_exists,     \* Path(args.image).exists() of run_eval.py
  exit_code         \* the exit status of the script, NoExit while it runs

procVars == <<settings, entry, entry_pc, image_exists, exit_code>>

\* src/src/main.py: several runs of run_agent in one process, each on a
\* thread of its own.
VARIABLES
  run_doc,          \* per run, the bytes it was given
  cursors,          \* per run, the PDFState its tools were built around
  conc_calls,       \* navigation calls dispatched so far, all runs together
  latest_run,       \* the run that built its PDFState last (0: none yet)
  conc_last         \* history: the run of the last call and every cursor before it

concVars == <<run_doc, cursors, conc_calls, latest_run, conc_last>>

notAgent == <<evalVars, procVars, concVars>>
notEval == <<agentVars, concVars>>

vars == <<agentVars, evalVars, procVars, concVars>>

NoStep ==
  [kind |-> "none", step_number |-> 0, observations |-> <<>>, error |-> "",
   observations_images |-> <<>>]

NoResponse == [answer |-> "", page |-> 0]

\* smolagents' TaskStep(task, task_images=images).
TaskStep(images) ==
  [kind |-> "task", step_number |-> 0, observations |-> <<>>, error |-> "",
   observations_images |-> images]

\* smolagents' ActionStep(step_number, observations_images=images).
ActionStep(n, images) ==
  [kind |-> "action", step_number |-> n, observations |-> <<>>, error |-> "",
   observations_images |-> images]

\* The images run_agent handed to agent.run: those of the TaskStep.
TaskImages(mem) == IF Len(mem) = 0 THEN <<>> ELSE mem[1].observations_images

AgentInitWith(d) ==
  /\ doc = d
  /\ pdf_state = PDFStateInit(doc)
  /\ pc = "constructed"
  /\ run_state = "RUNNING"
  /\ step_number = 0
  /\ memory = <<>>
  /\ cur_step = NoStep
  /\ calls = 0
  /\ answer = ""
  /\ response = NoResponse
  /\ last = [op |-> "none", arg |-> 0, pre |-> PDFStateInit(doc),
             post |-> PDFStateInit(doc), raised |-> FALSE, status |-> <<>>]
  /\ captured = <<>>
  /\ nav_calls = 0
  /\ final_step = 0

\* run_agent, lines 133-147: the agent is built and agent.run is called with
\* the image of the current page, whose rendering is not guarded: when it
\* raises, run_agent raises and the request fails.
StartRun ==
  /\ pc = "constructed"
  /\ LET img == get_page_image(pdf_state, doc) IN
       IF img.raised
         THEN /\ pc' = "failed"
              /\ run_state' = "ERROR"
              /\ UNCHANGED <<memory, step_number>>
         ELSE /\ pc' = "thinking"
              /\ memory' = <<TaskStep(<<img.image>>)>>
              /\ step_number' = 1
              /\ UNCHANGED run_state
  /\ UNCHANGED notAgent
  /\ UNCHANGED <<doc, pdf_state, cur_step, calls, answer, response, last,
                 captured, nav_calls, final_step>>

\* One model call of the loop: a new ActionStep, and the model's output is
\* code to execute, text that does not parse (AgentParsingError, recorded on
\* the step, the loop goes on) or no output at all (the call raised:
\* AgentGenerationError, re-raised after the finally block).
ModelGenerate(out) ==
  /\ pc = "thinking"
  /\ cur_step' = [ActionStep(step_number, TaskImages(memory))
                    EXCEPT !.error = IF out = "code" THEN "" ELSE out]
  /\ calls' = 0
  /\ pc' = IF out = "code" THEN "acting" ELSE "finalize"
  /\ UNCHANGED notAgent
  /\ UNCHANGED <<doc, pdf_state, run_state, step_number, memory, answer,
                 response, last, captured, nav_calls, final_step>>

\* The three tools of lines 98-114 on the PDFState st they were built
\* around, which holds the bytes d: each returns the PDFState method's
\* result.
ToolCall(op, arg, st, d) ==
  CASE op = "next_page"     -> next_page(st, d)
    [] op = "previous_page" -> previous_page(st, d)
    [] OTHER                -> go_to_page(st, d, arg)

NavCall(op, arg) == ToolCall(op, arg, pdf_state, doc)

\* The step's code calls a tool. A raise inside the tool ends the code with
\* an AgentExecutionError recorded on the step.
Dispatch(op, arg) ==
  /\ calls < MaxCalls
  /\ LET r == NavCall(op, arg) IN
       /\ pdf_state' = r.state
       /\ last' = [op |-> op, arg |-> arg, pre |-> pdf_state, post |-> r.state,
                   raised |-> r.raised, status |-> r.status]
       /\ cur_step' = [cur_step EXCEPT
                         !.observations = r.status,
                         !.error = IF r.raised THEN "execution" ELSE @]
       /\ pc' = IF r.raised THEN "finalize" ELSE "acting"
  /\ calls' = calls + 1
  /\ nav_calls' = nav_calls + 1
  /\ UNCHANGED notAgent
  /\ UNCHANGED <<doc, run_state, step_number, memory, answer, response,
                 captured, final_step>>

ToolNextPage == pc = "acting" /\ Dispatch("next_page", 0)
ToolPreviousPage == pc = "acting" /\ Dispatch("previous_page", 0)
ToolGoToPage == pc = "acting" /\ \E n \in GoToArgs : Dispatch("go_to_page", n)

\* The step's code calls final_answer(a): the run is over after this step.
ToolFinalAnswer ==
  /\ pc = "acting"
  /\ \E a \in Answers : answer' = a
  /\ final_step' = step_number
  /\ pc' = "finalize"
  /\ UNCHANGED notAgent
  /\ UNCHANGED <<doc, pdf_state, run_state, step_number, memory, cur_step,
                 calls, response, last, captured, nav_calls>>

\* The step's code ends without a final answer.
CodeEnds ==
  /\ pc = "acting"
  /\ pc' = "finalize"
  /\ UNCHANGED notAgent
  /\ UNCHANGED <<doc, pdf_state, run_state, step_number, memory, cur_step,
                 calls, answer, response, last, captured, nav_calls, final_step>>

\* current_page_callback, lines 117-130: the images of the ActionSteps in
\* memory numbered <= current_step - 2 are set to None, then the step gets
\* the image of the current page.
PruneWindow3(mem, current_step) ==
  [i \in DOMAIN mem |->
     IF mem[i].kind = "action" /\ mem[i].step_number <= current_step - 3
       THEN [mem[i] EXCEPT !.observations_images = <<>>]
       ELSE mem[i]]
PruneAnyKind(mem, current_step) ==
  [i \in DOMAIN mem |->
     IF mem[i].step_number <= current_step - K
       THEN [mem[i] EXCEPT !.observations_images = <<>>]
       ELSE mem[i]]
PruneClearsStep(mem, current_step) ==
  [i \in DOMAIN mem |->
     IF mem[i].kind = "action" /\ mem[i].step_number <= current_step - K
       THEN [mem[i] EXCEPT !.observations_images = <<>>, !.observations = <<>>]
       ELSE mem[i]]
Prune(mem, current_step) ==
  [i \in DOMAIN mem |->
     IF mem[i].kind = "action" /\ mem[i].step_number <= current_step - K
       THEN [mem[i] EXCEPT !.observations_images = <<>>]
       ELSE mem[i]]

CallbackKeepsStepImages(memory_step, mem, st, d) ==
  [raised |-> FALSE,
   memory |-> Prune(mem, memory_step.step_number),
   step   |-> memory_step]
current_page_callback(memory_step, mem, st, d) ==
  LET img == get_page_image(st, d) IN
  [raised |-> img.raised,
   memory |-> Prune(mem, memory_step.step_number),
   step   |-> IF img.raised THEN memory_step
              ELSE [memory_step EXCEPT !.observations_images = <<img.image>>]]

\* The finally block of the loop: the step callbacks run, the step is
\* appended to memory and step_number is incremented. Then the loop ends on a
\* final answer, re-raises a generation error, goes on, or is out of steps.
FinalizeStep ==
  /\ pc = "finalize"
  /\ LET cb == current_page_callback(cur_step, memory, pdf_state, doc) IN
       IF cb.raised
         THEN /\ memory' = cb.memory
              /\ pc' = "failed"
              /\ run_state' = "ERROR"
              /\ UNCHANGED <<step_number, captured>>
         ELSE /\ memory' = Append(cb.memory, cb.step)
              /\ captured' = Append(captured, cb.step.observations_images)
              /\ step_number' = step_number + 1
              /\ IF cur_step.error = "generation"
                   THEN pc' = "failed" /\ run_state' = "ERROR"
                   ELSE IF final_step = step_number
                     THEN pc' = "answered" /\ run_state' = "DONE"
                     ELSE IF step_number + 1 > MaxSteps
                       THEN pc' = "max_steps" /\ UNCHANGED run_state
                       ELSE pc' = "thinking" /\ UNCHANGED run_state
  /\ cur_step' = NoStep
  /\ UNCHANGED notAgent
  /\ UNCHANGED <<doc, pdf_state, calls, answer, response, last, nav_calls,
                 final_step>>

\* The step budget is used up: the library asks the model for a final answer
\* (an error text when that call fails), records it on one more ActionStep
\* carrying the max-steps error, and runs the step callbacks on it.
HandleMaxSteps ==
  /\ pc = "max_steps"
  /\ \E a \in Answers : answer' = a
  /\ LET final_memory_step ==
           [ActionStep(step_number, <<>>) EXCEPT !.error = "max_steps"]
         cb == current_page_callback(final_memory_step, memory, pdf_state, doc)
     IN IF cb.raised
          THEN /\ memory' = cb.memory
               /\ pc' = "failed"
               /\ run_state' = "ERROR"
               /\ UNCHANGED captured
          ELSE /\ memory' = Append(cb.memory, cb.step)
               /\ captured' = Append(captured, cb.step.observations_images)
               /\ pc' = "answered"
               /\ run_state' = "ABORTED"
  /\ UNCHANGED notAgent
  /\ UNCHANGED <<doc, pdf_state, step_number, cur_step, calls, response, last,
                 nav_calls, final_step>>

\* run_agent, line 149.
ResponsePageZeroBased(a, st) == [answer |-> a, page |-> st.current_page]
MakeResponse(a, st) == [answer |-> a, page |-> st.current_page + 1]

Return ==
  /\ pc = "answered"
  /\ response' = MakeResponse(answer, pdf_state)
  /\ pc' = "returned"
  /\ UNCHANGED notAgent
  /\ UNCHANGED <<doc, pdf_state, run_state, step_number, memory, cur_step,
                 calls, answer, last, captured, nav_calls, final_step>>


\* =================================================== src/eval/evaluate.py
\* A text is the sequence of its characters.
CORRECT == <<"c", "o", "r", "r", "e", "c", "t">>
INCORRECT == <<"i", "n">> \o CORRECT

Whitespace == {" ", "\n", "\t"}

LowerOf ==
  [c \in {"C", "O", "R", "E", "T", "I", "N", "Y", "S"} |->
     CASE c = "C" -> "c" [] c = "O" -> "o" [] c = "R" -> "r" [] c = "E" -> "e"
       [] c = "T" -> "t" [] c = "I" -> "i" [] c = "N" -> "n" [] c = "Y" -> "y"
       [] OTHER -> "s"]

LowerChar(c) == IF c \in DOMAIN LowerOf THEN LowerOf[c] ELSE c

\* str.lower()
Lower(t) == [i \in 1..Len(t) |-> LowerChar(t[i])]

\* str.strip(): the text without its leading and trailing whitespace.
Strip(t) ==
  LET solid == { i \in 1..Len(t) : t[i] \notin Whitespace } IN
  IF solid = {} THEN <<>>
  ELSE LET lo == CHOOSE i \in solid : \A j \in solid : i <= j
           hi == CHOOSE i \in solid : \A j \in solid : j <= i
       IN SubSeq(t, lo, hi)

\* What the judge model may say.
JudgeTexts ==
  { CORRECT,
    INCORRECT,
    <<"C", "o", "r", "r", "e", "c", "t">>,
    <<" ", "C", "O", "R", "R", "E", "C", "T", "\n">>,
    <<"I", "n", "c", "o", "r", "r", "e", "c", "t", " ">>,
    <<"c", "o", "r", "r", "e", "c", "t", ".">>,
    <<"y", "e", "s">>,
    <<" ">>,
    <<>> }

\* What the chat-completion call of grade_answer comes back with: a message
\* with a text, a message whose content is None, no choice at all, or a raise
\* (a transport error).
JudgeReplies ==
  { [kind |-> "text", content |-> t] : t \in JudgeTexts }
    \cup { [kind |-> k, content |-> <<>>] : k \in {"none", "no_choices", "raise"} }

\* LLMJudge.grade_answer, lines 111-131, on the reply the call gets. The try
\* body raises on a transport error, on choices[0] of no choice and on
\* None.strip(); the except clause returns "incorrect".
GradeAnswerNoLower(reply) ==
  IF reply.kind # "text" THEN [raised |-> FALSE, value |-> INCORRECT]
  ELSE LET grade == Strip(reply.content) IN
       [raised |-> FALSE,
        value |-> IF grade \notin {CORRECT, INCORRECT} THEN INCORRECT ELSE grade]
GradeAnswerNoValidation(reply) ==
  IF reply.kind # "text" THEN [raised |-> FALSE, value |-> INCORRECT]
  ELSE [raised |-> FALSE, value |-> Lower(Strip(reply.content))]
grade_answer(reply) ==
  LET try == IF reply.kind \in {"raise", "no_choices", "none"}
               THEN [raised |-> TRUE, value |-> <<>>]
               ELSE LET grade == Lower(Strip(reply.content)) IN
                    [raised |-> FALSE,
                     value |-> IF grade \notin {CORRECT, INCORRECT}
                                 THEN INCORRECT ELSE grade]
  IN IF try.raised THEN [raised |-> FALSE, value |-> INCORRECT] ELSE try

\* EvaluationResults.__init__ and add_result, lines 31-49.
NewResults == [results |-> <<>>, total_questions |-> 0, correct_answers |-> 0]

AddResultDropsErrors(r, question, expected, predicted, grade) ==
  LET is_correct == Strip(Lower(grade)) = CORRECT IN
  IF predicted # <<>> /\ predicted[1] = "Error: " THEN r
  ELSE [results |-> Append(r.results,
                      [question |-> question, expected_answer |-> expected,
                       predicted_answer |-> predicted, grade |-> grade,
                       is_correct |-> is_correct]),
        total_questions |-> r.total_questions + 1,
        correct_answers |-> IF is_correct THEN r.correct_answers + 1
                            ELSE r.correct_answers]
AddResultNoStrip(r, question, expected, predicted, grade) ==
  LET is_correct == Lower(grade) = CORRECT IN
  [results |-> Append(r.results,
                 [question |-> question, expected_answer |-> expected,
                  predicted_answer |-> predicted, grade |-> grade,
                  is_correct |-> is_correct]),
   total_questions |-> r.total_questions + 1,
   correct_answers |-> IF is_correct THEN r.correct_answers + 1
                       ELSE r.correct_answers]
add_result(r, question, expected, predicted, grade) ==
  LET is_correct == Strip(Lower(grade)) = CORRECT IN
  [results |-> Append(r.results,
                 [question |-> question, expected_answer |-> expected,
                  predicted_answer |-> predicted, grade |-> grade,
                  is_correct |-> is_correct]),
   total_questions |-> r.total_questions + 1,
   correct_answers |-> IF is_correct THEN r.correct_answers + 1
                       ELSE r.correct_answers]

\* A float is kept as the exact ratio it stands for.
Ratio(n, d) == [num |-> n, den |-> d]
RatioDiv(a, b) == Ratio(a, b)
RatioTimes(q, k) == Ratio(q.num * k, q.den)

\* EvaluationResults.get_accuracy, lines 51-55.
GetAccuracyAsFraction(r) ==
  IF r.total_questions = 0 THEN Ratio(0, 1)
  ELSE RatioDiv(r.correct_answers, r.total_questions)
get_accuracy(r) ==
  IF r.total_questions = 0 THEN Ratio(0, 1)
  ELSE RatioTimes(RatioDiv(r.correct_answers, r.total_questions), 100)

\* EvaluationResults.save_detailed_results, lines 57-70: what is written to
\* the output file (the timestamp left out).
SaveDropsLastResult(r) ==
  [total_questions |-> r.total_questions,
   correct_answers |-> r.correct_answers,
   accuracy |-> get_accuracy(r),
   results |-> IF r.results = <<>> THEN <<>>
               ELSE SubSeq(r.results, 1, Len(r.results) - 1)]
save_detailed_results(r) ==
  [total_questions |-> r.total_questions,
   correct_answers |-> r.correct_answers,
   accuracy |-> get_accuracy(r),
   results |-> r.results]

\* The lines of an evaluation file: a record with a question and an answer,
\* a blank line, or a line that is not JSON.
MaxLines == 2

Record(i) == [kind |-> "record", question |-> <<"q", i>>, answer |-> <<"a", i>>]
\* item.get(key, ""), lines 202-203.
ItemGet(item, key) == IF key \in DOMAIN item THEN item[key] ELSE <<>>

BlankLine == [kind |-> "blank", question |-> <<>>, answer |-> <<>>]
MalformedLine == [kind |-> "malformed", question |-> <<>>, answer |-> <<>>]

EvalFiles ==
  UNION { [1..n -> {"record", "blank", "malformed"}] : n \in 0..MaxLines }

FileLine(f, i) ==
  CASE f[i] = "record" -> Record(i)
    [] f[i] = "blank"  -> BlankLine
    [] OTHER           -> MalformedLine

\* load_eval_set, lines 134-150: the stripped non-empty lines parsed in
\* order; a missing file or a line json.loads rejects makes the whole load
\* return [].
RECURSIVE ParseLines(_, _, _)
ParseLines(f, i, acc) ==
  IF i > Len(f) THEN [raised |-> FALSE, data |-> acc]
  ELSE CASE f[i] = "blank"     -> ParseLines(f, i + 1, acc)
         [] f[i] = "malformed" -> [raised |-> TRUE, data |-> acc]
         [] OTHER              -> ParseLines(f, i + 1, Append(acc, FileLine(f, i)))

load_eval_set(exists, f) ==
  IF ~exists THEN <<>>
  ELSE LET parsed == ParseLines(f, 1, <<>>) IN
       IF parsed.raised THEN <<>> ELSE parsed.data

\* What the POST to /ask_pdf of lines 208-239 comes to: a JSON object with a
\* text answer, with a list answer or without an answer, a timeout, another
\* httpx.HTTPError (a non-2xx status among them), or any other exception.
PredictorReplies == {"text", "list", "no_answer", "timeout", "http_error", "other_error"}

PredictedAnswerBareMessage(reply, i) ==
  CASE reply = "text"       -> <<"p", i>>
    [] reply = "list"       -> <<"p", i, " ", "p'", i>>
    [] reply = "no_answer"  -> <<"No answer">>
    [] reply = "timeout"    -> <<"Request timed out">>
    [] reply = "http_error" -> <<"str(e)", "http">>
    [] OTHER                -> <<"str(e)", "other">>
PredictedAnswer(reply, i) ==
  CASE reply = "text"       -> <<"p", i>>
    [] reply = "list"       -> <<"p", i, " ", "p'", i>>
    [] reply = "no_answer"  -> <<"No answer">>
    [] reply = "timeout"    -> <<"Error: ", "Request timed out">>
    [] reply = "http_error" -> <<"Error: ", "str(e)", "http">>
    [] OTHER                -> <<"Error: ", "str(e)", "other">>

EvalInitWith(pe, ee, f) ==
  /\ pdf_exists = pe
  /\ eval_exists = ee
  /\ eval_file = f
  /\ epc = "start"
  /\ eval_data = <<>>
  /\ item_index = 0
  /\ predicted_answer = <<>>
  /\ item_grade = <<>>
  /\ results = NewResults
  /\ saved = <<>>
  /\ printed = 0
  /\ returned = ""
  /\ judge_log = <<>>
  /\ predict_log = <<>>

\* What the settings object of line 9 supplies to the harness. api_key: a
\* key reaches the judge's OpenAI client (without one its constructor
\* raises). eval_api_url: the object has that attribute; the Settings class
\* of src/src/settings.py declares no such field, and reading a missing
\* attribute raises AttributeError.
SettingsObjects == [api_key : BOOLEAN, eval_api_url : BOOLEAN]

NoExit == 0 - 1

ProcInitWith(cfg, script, ie) ==
  /\ settings = cfg
  /\ entry = script
  /\ entry_pc = IF script = "" THEN "called" ELSE "start"
  /\ image_exists = ie
  /\ exit_code = NoExit

\* No run of run_agent in the process, while the harness is looked at.
ConcIdle ==
  /\ run_doc = <<>>
  /\ cursors = <<>>
  /\ conc_calls = 0
  /\ latest_run = 0
  /\ conc_last = [run |-> 0, before |-> <<>>]

\* The harness not running, while the answering service is looked at.
EvalIdle ==
  /\ EvalInitWith(FALSE, FALSE, <<>>)
  /\ ProcInitWith([api_key |-> FALSE, eval_api_url |-> FALSE], "", FALSE)

\* run_evaluation, lines 168-176: the PDF must exist and the loaded
\* evaluation set must not be empty, else the function returns None.
CheckAndLoadKeepsEmptySet ==
  /\ epc = "start"
  /\ entry_pc = "called"
  /\ IF ~pdf_exists
       THEN /\ epc' = "done"
            /\ returned' = "None"
            /\ UNCHANGED <<eval_data, item_index, results>>
       ELSE /\ eval_data' = load_eval_set(eval_exists, eval_file)
            /\ epc' = "init_judge"
            /\ UNCHANGED <<returned, item_index, results>>
  /\ UNCHANGED <<pdf_exists, eval_exists, eval_file, predicted_answer, item_grade,
                 saved, printed, judge_log, predict_log>>
  /\ UNCHANGED procVars
  /\ UNCHANGED notEval
CheckAndLoadWithoutPdfCheck ==
  /\ epc = "start"
  /\ entry_pc = "called"
  /\ LET data == load_eval_set(eval_exists, eval_file) IN
       /\ eval_data' = data
       /\ IF data = <<>>
            THEN /\ epc' = "done"
                 /\ returned' = "None"
                 /\ UNCHANGED <<item_index, results>>
            ELSE /\ epc' = "init_judge"
                 /\ UNCHANGED <<returned, item_index, results>>
  /\ UNCHANGED <<pdf_exists, eval_exists, eval_file, predicted_answer, item_grade,
                 saved, printed, judge_log, predict_log>>
  /\ UNCHANGED procVars
  /\ UNCHANGED notEval
CheckAndLoad ==
  /\ epc = "start"
  /\ entry_pc = "called"
  /\ IF ~pdf_exists
       THEN /\ epc' = "done"
            /\ returned' = "None"
            /\ UNCHANGED <<eval_data, item_index, results>>
       ELSE LET data == load_eval_set(eval_exists, eval_file) IN
            /\ eval_data' = data
            /\ IF data = <<>>
                 THEN /\ epc' = "done"
                      /\ returned' = "None"
                      /\ UNCHANGED <<item_index, results>>
                 ELSE /\ epc' = "init_judge"
                      /\ UNCHANGED <<returned, item_index, results>>
  /\ UNCHANGED <<pdf_exists, eval_exists, eval_file, predicted_answer, item_grade,
                 saved, printed, judge_log, predict_log>>
  /\ UNCHANGED procVars
  /\ UNCHANGED notEval

\* Lines 178-182: the judge and its OpenAI client are built from the
\* settings; the client's constructor raises when no key reaches it, and
\* nothing around line 180 catches that.
InitJudge ==
  /\ epc = "init_judge"
  /\ IF settings.api_key
       THEN epc' = "read_pdf" /\ UNCHANGED returned
       ELSE epc' = "done" /\ returned' = "raised"
  /\ UNCHANGED <<pdf_exists, eval_exists, eval_file, eval_data, item_index,
                 predicted_answer, item_grade, results, saved, printed, judge_log,
                 predict_log>>
  /\ UNCHANGED procVars
  /\ UNCHANGED notEval

\* Lines 184-191: the PDF is read once; a failure to read it returns None.
ReadPdf ==
  /\ epc = "read_pdf"
  /\ \E ok \in BOOLEAN :
       IF ok
         THEN epc' = "begin" /\ UNCHANGED returned
         ELSE epc' = "done" /\ returned' = "None"
  /\ UNCHANGED <<pdf_exists, eval_exists, eval_file, eval_data, item_index,
                 predicted_answer, item_grade, results, saved, printed, judge_log,
                 predict_log>>
  /\ UNCHANGED procVars
  /\ UNCHANGED notEval

\* Lines 193-201: the results tracker is created and the API URL is printed
\* before the loop starts; the read of settings.eval_api_url at line 198 is
\* outside every try, so a settings object without it ends the function
\* with AttributeError. A for loop over no items goes straight past its
\* body.
BeginProcessing ==
  /\ epc = "begin"
  /\ results' = NewResults
  /\ IF settings.eval_api_url
       THEN /\ item_index' = 1
            /\ epc' = IF eval_data = <<>> THEN "save" ELSE "predict"
            /\ UNCHANGED returned
       ELSE /\ epc' = "done"
            /\ returned' = "raised"
            /\ UNCHANGED item_index
  /\ UNCHANGED <<pdf_exists, eval_exists, eval_file, eval_data,
                 predicted_answer, item_grade, saved, printed, judge_log, predict_log>>
  /\ UNCHANGED procVars
  /\ UNCHANGED notEval

\* Lines 201-239: the prediction for item i, an error text when the call
\* fails.
PredictAhead ==
  /\ epc = "predict"
  /\ \E reply \in PredictorReplies :
       /\ predicted_answer' = PredictedAnswer(reply, item_index)
       /\ predict_log' = Append(predict_log, reply)
  /\ IF Len(predict_log) + 1 < Len(eval_data)
       THEN epc' = "predict" /\ item_index' = item_index + 1
       ELSE epc' = "judge" /\ UNCHANGED item_index
  /\ UNCHANGED <<pdf_exists, eval_exists, eval_file, eval_data,
                 item_grade, results, saved, printed, returned, judge_log>>
  /\ UNCHANGED procVars
  /\ UNCHANGED notEval
Predict ==
  /\ epc = "predict"
  /\ \E reply \in PredictorReplies :
       /\ predicted_answer' = PredictedAnswer(reply, item_index)
       /\ predict_log' = Append(predict_log, reply)
  /\ epc' = "judge"
  /\ UNCHANGED <<pdf_exists, eval_exists, eval_file, eval_data, item_index,
                 item_grade, results, saved, printed, returned, judge_log>>
  /\ UNCHANGED procVars
  /\ UNCHANGED notEval

\* Lines 241-247: the judge grades the predicted answer, whatever it is; the
\* harness has its own handler, which grades "incorrect", around the call.
Judge ==
  /\ epc = "judge"
  /\ \E reply \in JudgeReplies :
       LET ret == grade_answer(reply) IN
       /\ item_grade' = IF ret.raised THEN INCORRECT ELSE ret.value
       /\ judge_log' = Append(judge_log, [reply |-> reply, ret |-> ret,
                                          predicted |-> predicted_answer])
  /\ epc' = "record"
  /\ UNCHANGED <<pdf_exists, eval_exists, eval_file, eval_data, item_index,
                 predicted_answer, results, saved, printed, returned, predict_log>>
  /\ UNCHANGED procVars
  /\ UNCHANGED notEval

\* Lines 249-251 and the loop's step: the result is appended and the loop
\* goes to the next item, or ends.
AddResult ==
  /\ epc = "record"
  /\ LET item == eval_data[item_index] IN
       results' = add_result(results, ItemGet(item, "question"),
                             ItemGet(item, "answer"), predicted_answer, item_grade)
  /\ IF item_index < Len(eval_data)
       THEN item_index' = item_index + 1 /\ epc' = "predict"
       ELSE UNCHANGED item_index /\ epc' = "save"
  /\ UNCHANGED <<pdf_exists, eval_exists, eval_file, eval_data,
                 predicted_answer, item_grade, saved, printed, returned, judge_log,
                 predict_log>>
  /\ UNCHANGED procVars
  /\ UNCHANGED notEval

\* Lines 253-255: the report is saved; when the output file cannot be
\* written the exception leaves run_evaluation.
Save ==
  /\ epc = "save"
  /\ \E ok \in BOOLEAN :
       IF ok
         THEN /\ saved' = Append(saved, save_detailed_results(results))
              /\ epc' = "print"
              /\ UNCHANGED returned
         ELSE /\ epc' = "done"
              /\ returned' = "raised"
              /\ UNCHANGED saved
  /\ UNCHANGED <<pdf_exists, eval_exists, eval_file, eval_data, item_index,
                 predicted_answer, item_grade, results, printed, judge_log,
                 predict_log>>
  /\ UNCHANGED procVars
  /\ UNCHANGED notEval

\* Lines 257-260: the summary is printed and the results are returned.
PrintSummaryAndReturn ==
  /\ epc = "print"
  /\ printed' = printed + 1
  /\ returned' = "results"
  /\ epc' = "done"
  /\ UNCHANGED <<pdf_exists, eval_exists, eval_file, eval_data, item_index,
                 predicted_answer, item_grade, results, saved, judge_log, predict_log>>
  /\ UNCHANGED procVars
  /\ UNCHANGED notEval

EvalNext ==
  \/ CheckAndLoad
  \/ InitJudge
  \/ ReadPdf
  \/ BeginProcessing
  \/ Predict
  \/ Judge
  \/ AddResult
  \/ Save
  \/ PrintSummaryAndReturn

\* The answering service not running, while the harness is looked at.
AgentIdle == AgentInitWith(CorruptDoc)

\* ------------------------------- src/eval/run_eval.py and the two scripts
\* The parameters of run_evaluation, lines 153-157 of evaluate.py, and the
\* keywords main passes to it, lines 50-52 of run_eval.py. A call with a
\* keyword the function does not have raises TypeError before its body
\* starts.
RunEvaluationParams == {"eval_set_path", "pdf_path", "output_file"}
MainKeywords == {"eval_set_path", "image_path", "output_file"}

CallBinds(keywords, params) == keywords \subseteq params

\* evaluate.py run as a script, lines 263-277: run_evaluation() with its
\* defaults.
EvaluateScript ==
  /\ entry = "evaluate.py"
  /\ entry_pc = "start"
  /\ entry_pc' = "called"
  /\ UNCHANGED <<settings, entry, image_exists, exit_code>>
  /\ UNCHANGED evalVars
  /\ UNCHANGED notEval

\* main of run_eval.py, lines 39-52 and 64-66: both files must exist, then
\* run_evaluation is called inside a try whose handler returns 1.
RunEvalMain ==
  /\ entry = "run_eval.py"
  /\ entry_pc = "start"
  /\ IF ~eval_exists \/ ~image_exists
       THEN entry_pc' = "exited" /\ exit_code' = 1
       ELSE IF CallBinds(MainKeywords, RunEvaluationParams)
              THEN entry_pc' = "called" /\ UNCHANGED exit_code
              ELSE entry_pc' = "exited" /\ exit_code' = 1
  /\ UNCHANGED <<settings, entry, image_exists>>
  /\ UNCHANGED evalVars
  /\ UNCHANGED notEval

\* run_evaluation has ended. main of run_eval.py, lines 54-66, returns 0
\* for a results object and 1 for None or an exception; evaluate.py, lines
\* 279-282, prints and ends, with status 1 only when an exception left
\* run_evaluation.
ScriptEnds ==
  /\ entry_pc = "called"
  /\ entry # ""
  /\ epc = "done"
  /\ entry_pc' = "exited"
  /\ exit_code' = IF entry = "run_eval.py"
                    THEN (IF returned = "results" THEN 0 ELSE 1)
                    ELSE (IF returned = "raised" THEN 1 ELSE 0)
  /\ UNCHANGED <<settings, entry, image_exists>>
  /\ UNCHANGED evalVars
  /\ UNCHANGED notEval

MainNext ==
  \/ EvaluateScript
  \/ RunEvalMain
  \/ ScriptEnds
  \/ EvalNext

\* One of the two scripts is started, with any files and any settings.
MainInit ==
  \E script \in {"evaluate.py", "run_eval.py"}, pe \in BOOLEAN, ee \in BOOLEAN,
     ie \in BOOLEAN, f \in EvalFiles, cfg \in SettingsObjects :
    /\ (~ee => f = <<>>)
    /\ (script = "evaluate.py" => ~ie)
    /\ EvalInitWith(pe, ee, f)
    /\ ProcInitWith(cfg, script, ie)
    /\ AgentIdle
    /\ ConcIdle

MainSpec == MainInit /\ [][MainNext]_vars

\* ------------------------------------------------ several runs at once
\* ask_pdf, lines 160-164, serves each request with a run_agent call of its
\* own; agent.run is moved to a thread (line 147), so the tool calls of the
\* runs interleave in any order.
ConcRuns == 2
MaxConcCalls == 3

Runs == 1..ConcRuns

\* The documents whose pages all have text.
TextDocs == { d \in Docs : \A i \in 1..d.pages : d.text[i] # NoText }

\* A run that has not built its PDFState yet.
NoPDFState == [current_page |-> 0, total_pages |-> 0]

\* The PDFState a tool of run r works on: pdf_state is a local of the
\* run_agent call that defined the tool (line 95), captured by the closures
\* of lines 98-114. latest is the run that built a PDFState last.
ModuleLevelState(r, latest) == latest
CapturedState(r, latest) == r

ConcInit ==
  /\ run_doc \in [Runs -> TextDocs]
  /\ cursors = [r \in Runs |-> NoPDFState]
  /\ conc_calls = 0
  /\ latest_run = 0
  /\ conc_last = [run |-> 0, before |-> <<>>]
  /\ AgentIdle
  /\ EvalIdle

\* Line 95 of run r.
RunCreatesState(r) ==
  /\ cursors[r] = NoPDFState
  /\ cursors' = [cursors EXCEPT ![r] = PDFStateInit(run_doc[r])]
  /\ latest_run' = r
  /\ conc_last' = [run |-> 0, before |-> <<>>]
  /\ UNCHANGED <<run_doc, conc_calls>>
  /\ UNCHANGED <<agentVars, evalVars, procVars>>

\* The code of run r calls one of its tools.
RunDispatch(r, op, arg) ==
  /\ cursors[r] # NoPDFState
  /\ conc_calls < MaxConcCalls
  /\ LET t == CapturedState(r, latest_run)
         res == ToolCall(op, arg, cursors[t], run_doc[t])
     IN cursors' = [cursors EXCEPT ![t] = res.state]
  /\ conc_last' = [run |-> r, before |-> cursors]
  /\ conc_calls' = conc_calls + 1
  /\ UNCHANGED <<run_doc, latest_run>>
  /\ UNCHANGED <<agentVars, evalVars, procVars>>

ConcNext ==
  \/ \E r \in Runs : RunCreatesState(r)
  \/ \E r \in Runs, op \in {"next_page", "previous_page", "go_to_page"},
        arg \in GoToArgs : RunDispatch(r, op, arg)

ConcSpec == ConcInit /\ [][ConcNext]_vars

\* ----------------------------------------- EvaluationResults on its own
\* An EvaluationResults object driven through its methods by any caller:
\* add_result with any grade text, save_detailed_results at any time.
MaxResults == 4
MaxSaves == 2

GradeInputs == {CORRECT, INCORRECT, <<" ", "C", "O", "R", "R", "E", "C", "T", "\n">>}

CallAddResult ==
  /\ results.total_questions < MaxResults
  /\ \E g \in GradeInputs, reply \in {"text", "timeout"} :
       LET n == results.total_questions + 1 IN
       results' = add_result(results, <<"q", n>>, <<"a", n>>,
                             PredictedAnswer(reply, n), g)
  /\ UNCHANGED <<pdf_exists, eval_exists, eval_file, epc, eval_data, item_index,
                 predicted_answer, item_grade, saved, printed, returned, judge_log,
                 predict_log>>
  /\ UNCHANGED procVars
  /\ UNCHANGED notEval

CallSave ==
  /\ Len(saved) < MaxSaves
  /\ saved' = Append(saved, save_detailed_results(results))
  /\ UNCHANGED <<pdf_exists, eval_exists, eval_file, epc, eval_data, item_index,
                 predicted_answer, item_grade, results, printed, returned, judge_log,
                 predict_log>>
  /\ UNCHANGED procVars
  /\ UNCHANGED notEval

ResultsNext == CallAddResult \/ CallSave

ResultsInit == EvalIdle /\ AgentIdle /\ ConcIdle

ResultsSpec == ResultsInit /\ [][ResultsNext]_vars

\* A call of run_evaluation with any files and any settings object.
EvalSpecInit ==
  \E pe \in BOOLEAN, ee \in BOOLEAN, f \in EvalFiles, cfg \in SettingsObjects :
    /\ (~ee => f = <<>>)
    /\ EvalInitWith(pe, ee, f)
    /\ ProcInitWith(cfg, "", FALSE)
    /\ AgentIdle
    /\ ConcIdle

EvalSpec == EvalSpecInit /\ [][EvalNext]_vars

AgentNext ==
  \/ StartRun
  \/ \E out \in {"code", "parsing", "generation"} : ModelGenerate(out)
  \/ ToolNextPage
  \/ ToolPreviousPage
  \/ ToolGoToPage
  \/ ToolFinalAnswer
  \/ CodeEnds
  \/ FinalizeStep
  \/ HandleMaxSteps
  \/ Return

Init == \E d \in AllDocs : AgentInitWith(d) /\ EvalIdle /\ ConcIdle

Spec == Init /\ [][AgentNext]_vars

\* ------------------------------------------------------------------ claims
Clamp(n, lo, hi) == IF n < lo THEN lo ELSE IF n > hi THEN hi ELSE n

\* The ActionSteps in memory, and the number of the last one appended.
ActionIdx == { i \in DOMAIN memory : memory[i].kind = "action" }
LastStepNumber ==
  IF ActionIdx = {} THEN 0
  ELSE memory[CHOOSE i \in ActionIdx : \A j \in ActionIdx : j <= i].step_number

\* C1: for every PDFState and every sequence of next_page, previous_page and
\* go_to_page(n) calls, 0 <= current_page < total_pages holds after each call.
C1_CursorInRange ==
  /\ 0 <= pdf_state.current_page
  /\ pdf_state.current_page < pdf_state.total_pages
  /\ pdf_state = last.post

\* A go_to_page past the end has left the cursor on the last page.
C1_Witness ==
  /\ last.op = "go_to_page"
  /\ last.arg > pdf_state.total_pages
  /\ pdf_state.total_pages >= 2
  /\ pdf_state.current_page = pdf_state.total_pages - 1

C3_NextPageAtLastPage ==
  (last.op = "next_page" /\ last.pre.current_page = last.pre.total_pages - 1) =>
    /\ last.post.current_page = last.pre.current_page
    /\ ~last.raised
    /\ LET p == last.post.current_page + 1 IN
       IF doc.text[p] = NoText
         THEN last.status = <<"Switched to page ", p, ".">>
         ELSE last.status = <<"Switched to page ", p, ". Page text: ", doc.text[p]>>

C3_Witness ==
  /\ last.op = "next_page"
  /\ last.pre.total_pages >= 2
  /\ last.pre.current_page = last.pre.total_pages - 1
  /\ last.status # <<>>

\* C4: with the window of 2, after the callback of step s every step in
\* memory numbered <= s - 2 holds no images and every step numbered > s - 2
\* holds the images the callback gave it; so at most 2 steps carry images.
C4_PruningWindow ==
  /\ \A i \in ActionIdx :
       LET n == memory[i].step_number IN
       IF n <= LastStepNumber - 2
         THEN memory[i].observations_images = <<>>
         ELSE /\ memory[i].observations_images = captured[n]
              /\ captured[n] # <<>>
  /\ Cardinality({ i \in ActionIdx : memory[i].observations_images # <<>> }) <= 2

\* A step that had an image has lost it to the pruning.
C4_Witness ==
  \E i \in ActionIdx :
    /\ memory[i].step_number <= LastStepNumber - 2
    /\ captured[memory[i].step_number] # <<>>
    /\ memory[i].observations_images = <<>>
    /\ LastStepNumber <= MaxSteps

\* C5: every agent run ends in DONE (a final answer) or ABORTED (the step
\* budget), and the answering service then returns an answer: no run ends
\* with the request failing unhandled.
C5_RunAlwaysAnswers ==
  /\ pc # "failed"
  /\ run_state # "ERROR"
  /\ pc = "returned" => run_state \in {"DONE", "ABORTED"} /\ response.answer \in Answers

C7_ResponsePage ==
  pc = "returned" =>
    /\ response.page = pdf_state.current_page + 1
    /\ response.page = last.post.current_page + 1
    /\ response.page \in 1..pdf_state.total_pages
    /\ response.answer = answer

C7_Witness ==
  /\ pc = "returned"
  /\ last.op # "none"
  /\ response.page > 1

\* C8: when the page count cannot be determined the cursor is built with
\* total_pages = 1 and the request does not fail: the run proceeds to an
\* answer.
C8_DecodeFailureSurvives ==
  ~doc.decodable =>
    /\ pdf_state.total_pages = 1
    /\ pc # "failed"

\* The text t says the word w: t is w in any letter case, with nothing but
\* whitespace before and after it.
Says(t, w) ==
  \E a \in 0..Len(t) :
    /\ a + Len(w) <= Len(t)
    /\ \A k \in 1..a : t[k] \in Whitespace
    /\ \A k \in 1..Len(w) : LowerChar(t[a + k]) = w[k]
    /\ \A k \in (a + Len(w) + 1)..Len(t) : t[k] \in Whitespace

\* The judge failed (transport, no choice, no content) or its verdict is
\* outside the vocabulary.
JudgeFailed(reply) ==
  \/ reply.kind # "text"
  \/ ~(Says(reply.content, CORRECT) \/ Says(reply.content, INCORRECT))

\* C9: grade_answer returns exactly "correct" or "incorrect" whatever the
\* model answers (any text, no content, no choice, a raise), and the grade
\* is the answer trimmed and lower-cased: "correct" exactly when the answer
\* says correct.
C9_GradeVocabulary ==
  \A i \in DOMAIN judge_log :
    LET reply == judge_log[i].reply
        ret == judge_log[i].ret
    IN /\ ~ret.raised
       /\ ret.value \in {CORRECT, INCORRECT}
       /\ ret.value = CORRECT <=>
            (reply.kind = "text" /\ Says(reply.content, CORRECT))

\* The judge has answered " CORRECT\n"-like text, no content and a raise.
C9_Witness ==
  /\ Len(judge_log) >= 2
  /\ judge_log[1].reply.kind = "text"
  /\ judge_log[1].reply.content \notin {CORRECT, INCORRECT}
  /\ judge_log[1].ret.value = CORRECT
  /\ judge_log[2].reply.kind \in {"none", "raise"}

FailedReplies == {"timeout", "http_error", "other_error"}

BeginsWithError(t) == t # <<>> /\ t[1] = "Error: "

IsRecord(l) == l.kind = "record"
WellFormedRecords(f) == SelectSeq([i \in 1..Len(f) |-> FileLine(f, i)], IsRecord)

\* C13: loading a file that contains malformed lines skips only those
\* lines: the loaded items are exactly the well-formed records of the file,
\* in file order, and as many as there are valid lines.
C13_MalformedLinesSkipped ==
  (/\ epc # "start"
   /\ pdf_exists
   /\ eval_exists
   /\ \E i \in DOMAIN eval_file : eval_file[i] = "malformed")
    => /\ eval_data = WellFormedRecords(eval_file)
       /\ Len(eval_data) = Cardinality({i \in DOMAIN eval_file : eval_file[i] = "record"})

\* The ratio q is the number n / d.
RatioIs(q, n, d) == q.den # 0 /\ q.num * d = n * q.den

\* C14: get_accuracy is 100 * correct_answers / total_questions when
\* total_questions > 0 (75.0 for 3 correct of 4) and 0.0 when
\* total_questions = 0, after any sequence of add_result calls.
C14_Accuracy ==
  /\ IF results.total_questions = 0
       THEN RatioIs(get_accuracy(results), 0, 1)
       ELSE RatioIs(get_accuracy(results), 100 * results.correct_answers,
                    results.total_questions)
  /\ (results.total_questions = 4 /\ results.correct_answers = 3)
       => RatioIs(get_accuracy(results), 75, 1)
  /\ \A k \in DOMAIN saved :
       IF saved[k].total_questions = 0
         THEN RatioIs(saved[k].accuracy, 0, 1)
         ELSE RatioIs(saved[k].accuracy, 100 * saved[k].correct_answers,
                      saved[k].total_questions)

C14_Witness ==
  /\ \E k \in DOMAIN saved :
       saved[k].total_questions = 0 /\ saved[k].accuracy.num = 0
  /\ \E k \in DOMAIN saved :
       /\ saved[k].total_questions = 4
       /\ saved[k].correct_answers = 3
       /\ RatioIs(saved[k].accuracy, 75, 1)

\* C15: each run has its own cursor: a navigation call dispatched by one
\* run leaves the current_page and the total_pages of every other run as
\* they were, and leaves its own total_pages as it was.
C15_CursorPerRun ==
  conc_last.run # 0 =>
    /\ \A r \in Runs \ {conc_last.run} : cursors[r] = conc_last.before[r]
    /\ cursors[conc_last.run].total_pages
         = conc_last.before[conc_last.run].total_pages

C15_Witness ==
  /\ conc_last.run = 1
  /\ cursors[1].current_page # conc_last.before[1].current_page
  /\ cursors[2].current_page > 0
  /\ cursors[2].current_page # cursors[1].current_page
  /\ latest_run = 2

\* C16: main of run_eval.py, given an evaluation set and an input file that
\* exist, starts the evaluation pipeline, and returns 0 exactly when the
\* pipeline yields a results object.
C16_MainRunsPipeline ==
  (/\ entry = "run_eval.py"
   /\ eval_exists
   /\ image_exists
   /\ entry_pc = "exited")
    => /\ epc # "start"
       /\ exit_code = 0 <=> returned = "results"

\* No tool has been dispatched since the last step callback ran.
StepJustEnded ==
  \/ pc \in {"thinking", "max_steps", "answered", "returned"}
  \/ pc \in {"acting", "finalize"} /\ calls = 0

\* C17: at the end of step s the images on step s are exactly the image of
\* the page the cursor is on after the tool calls of step s, not of the page
\* it was on before them: while nothing was dispatched since the callback,
\* the last step appended holds the one image of the current page, which is
\* the page the last tool call of the step moved to.
C17_CaptureAfterActions ==
  (captured # <<>> /\ StepJustEnded) =>
    /\ captured[Len(captured)] = <<Image(pdf_state.current_page)>>
    /\ memory[Len(memory)].kind = "action"
    /\ memory[Len(memory)].observations_images = captured[Len(captured)]
    /\ (calls >= 1 /\ ~last.raised /\ pc \in {"thinking", "max_steps", "answered"})
         => captured[Len(captured)] = <<Image(last.post.current_page)>>

C17_Witness ==
  /\ pc = "thinking"
  /\ calls >= 1
  /\ Len(captured) >= 2
  /\ last.pre.current_page # last.post.current_page
  /\ captured[Len(captured)] = <<Image(last.post.current_page)>>
  /\ captured[Len(captured) - 1] = <<Image(last.pre.current_page)>>
  /\ memory[Len(memory)].observations_images = <<Image(last.post.current_page)>>

\* A step without its image payload.
TextOf(step) == [step EXCEPT !.observations_images = <<>>]

\* C18: pruning changes nothing but image payloads: from one state to the
\* next the steps in memory stay where they are with their text, error and
\* step number, a step's images stay or become empty, and the sequence of
\* steps only grows.
C18_PruningKeepsText ==
  [][/\ Len(memory') >= Len(memory)
     /\ \A i \in DOMAIN memory :
          /\ TextOf(memory'[i]) = TextOf(memory[i])
          /\ memory'[i].observations_images
               \in {memory[i].observations_images, <<>>}]_vars

\* A step that had an image and a status text has lost the image and kept
\* the text.
C18_Witness ==
  \E i \in ActionIdx :
    /\ memory[i].step_number <= LastStepNumber - 2
    /\ captured[memory[i].step_number] # <<>>
    /\ memory[i].observations_images = <<>>
    /\ memory[i].observations # <<>>
    /\ memory[i].step_number = i - 1
    /\ Len(memory) >= 4

C21_ConfigFailuresFatal ==
  /\ (~pdf_exists \/ ~eval_exists)
       => /\ epc \in {"start", "done"}
          /\ epc = "done" => returned = "None"
          /\ predict_log = <<>>
          /\ judge_log = <<>>
          /\ results.results = <<>>
          /\ saved = <<>>
          /\ printed = 0
  /\ predict_log # <<>>
       => /\ pdf_exists /\ eval_exists
          /\ epc \in {"save", "print", "done"}
               => Len(results.results) = Len(eval_data)
          /\ Len(results.results) < Len(eval_data)
               => epc \in {"predict", "judge", "record"}

C21_Witness ==
  /\ ~pdf_exists
  /\ eval_exists
  /\ \E i \in DOMAIN eval_file : eval_file[i] = "record"
  /\ \A i \in DOMAIN eval_file : eval_file[i] # "malformed"
  /\ epc = "done"
  /\ returned = "None"
  /\ predict_log = <<>>

\* The text of a page as a step's observations carry it: the last part of
\* the status a navigation tool returned.
CarriesPageText(step, page_text) ==
  Len(step.observations) = 4 /\ step.observations[4] = page_text

\* C22: before the first action of a run the model's context (the steps in
\* memory when the first model call is made) holds the image of the first
\* page and, when that page has extractable text, its text.
C22_InitialContext ==
  (pc = "thinking" /\ step_number = 1) =>
    /\ TaskImages(memory) = <<Image(0)>>
    /\ doc.text[1] # NoText
         => \E i \in DOMAIN memory : CarriesPageText(memory[i], doc.text[1])

\* C23: after any sequence of add_result calls total_questions is the
\* number of results, correct_answers is the number of results whose
\* is_correct is true, 0 <= correct_answers <= total_questions, and a
\* result's is_correct is true exactly when its grade, lower-cased and
\* trimmed, is "correct".
C23_CountsMatchResults ==
  /\ results.total_questions = Len(results.results)
  /\ results.correct_answers
       = Cardinality({ i \in DOMAIN results.results : results.results[i].is_correct })
  /\ 0 <= results.correct_answers
  /\ results.correct_answers <= results.total_questions
  /\ \A i \in DOMAIN results.results :
       results.results[i].is_correct
         <=> Lower(Strip(results.results[i].grade)) = CORRECT

C23_Witness ==
  /\ results.total_questions = 3
  /\ results.correct_answers = 2
  /\ results.results[1].grade = INCORRECT
  /\ results.results[2].grade = CORRECT
  /\ results.results[3].grade \notin {CORRECT, INCORRECT}
  /\ results.results[3].is_correct

\* C24: when the loaded evaluation set is empty (an empty or missing file,
\* or a load that returned no items) run_evaluation returns None right
\* after the load: no predictor call, no judge call, nothing written and
\* nothing printed; a report of 0 questions is never saved.
C24_EmptySetNoReport ==
  /\ (epc # "start" /\ eval_data = <<>>)
       => /\ epc = "done"
          /\ returned = "None"
          /\ predict_log = <<>>
          /\ judge_log = <<>>
          /\ saved = <<>>
          /\ printed = 0
  /\ \A k \in DOMAIN saved :
       saved[k].total_questions > 0 /\ saved[k].results # <<>>

\* A file that exists and holds only blank lines was loaded.
C24_Witness ==
  /\ pdf_exists
  /\ eval_exists
  /\ eval_file # <<>>
  /\ \A i \in DOMAIN eval_file : eval_file[i] = "blank"
  /\ eval_data = <<>>
  /\ epc = "done"
  /\ returned = "None"
  /\ saved = <<>>

\* The positions in memory that hold images.
WithImages == { i \in DOMAIN memory : memory[i].observations_images # <<>> }

\* C25: the page image handed to the agent at the start of the run sits on
\* the task step, not on an action step, and the pruning never clears it:
\* memory always starts with the task step holding the image of the first
\* page, and after step s >= 2 the images in memory are that one and those
\* of steps s - 1 and s.
C25_InitialImageKept ==
  memory # <<>> =>
    /\ memory[1].kind = "task"
    /\ memory[1].observations_images = <<Image(0)>>
    /\ \A i \in DOMAIN memory : i > 1 => memory[i].kind = "action"
    /\ LastStepNumber >= 2
         => WithImages = {1} \cup { i \in ActionIdx :
                                     memory[i].step_number >= LastStepNumber - 1 }

C25_Witness ==
  /\ LastStepNumber >= 3
  /\ memory[1].observations_images = <<Image(0)>>
  /\ Cardinality(WithImages) = 3
  /\ \E i \in ActionIdx : memory[i].observations_images = <<>>
  /\ \A i \in WithImages \ {1} : memory[i].observations_images # <<Image(0)>>

====
